---- MODULE Spec2Model ----
(***************************************************************************)
(* A model of @allbin/user-cache (src/src/index.ts): a fetch-through cache *)
(* of Auth0 user records in Redis.                                         *)
(*                                                                         *)
(* An identifier is modelled by a positive integer i (it stands for the    *)
(* provider-qualified string "p|i"); 0 stands for the empty string.  A     *)
(* user record is [user_id, origin, serial]: origin tells where the        *)
(* document was made (the remote directory, the mock generator, the        *)
(* caller of setUsers) and serial tells two mock documents apart, as the   *)
(* random username of the generated document does.  An optional value is   *)
(* a sequence of length 0 (undefined / null) or 1.                         *)
(***************************************************************************)
EXTENDS Integers, Sequences, FiniteSets, TLC

\* ---- bounds of the model ----
NumIds == 2
NumCalls == 2
MaxNow == 1
MaxOps == 3
ShortTtl == 1
ShortLife == 1
MaxBatchIds == 25
MaxBatchOps == 1
MaxConcOps == 2
MaxFailOps == 2

\* ---- program constants ----
BatchSize == 10
SafetyMargin == 60
DefaultTtl == 60 * 15
EmptyId == 0

VARIABLES
    opts_ttl,      \* the ttl the caller supplied to the factory (optional)
    options,       \* ctx.options: [ttl, create_mock_user_fn]
    upstream,      \* identifiers that exist in the remote directory
    now,           \* the clock, in seconds
    cache,         \* the Redis store: key -> [doc, expire_at]
    isConnected,   \* ctx.isConnected
    redis_open,    \* the Redis client's socket is open
    access_token,  \* ctx.access_token (optional [id, exp])
    token_seq,     \* number of tokens the identity provider has issued
    mock_seq,      \* number of documents the mock generator has made
    ops,           \* number of public operations started
    calls,         \* the calls in progress: locals and position of each
    prev,          \* summary of the operation that preceded the current one
    hist           \* what the Redis client was asked to do so far (a history)

vars == <<opts_ttl, options, upstream, now, cache, isConnected, redis_open,
          access_token, token_seq, mock_seq, ops, calls, prev, hist>>

Ids == 1..NumIds
Calls == 1..NumCalls
BatchIds == 1..MaxBatchIds

\* ---- helpers ----
Min(a, b) == IF a < b THEN a ELSE b

SeqToSet(s) == {s[i] : i \in 1..Len(s)}

UserIds(users) == [i \in 1..Len(users) |-> users[i].user_id]

\* the elements of a set of integers, in ascending order
RECURSIVE SetToSeqAsc(_)
SetToSeqAsc(S) ==
    IF S = {} THEN <<>>
    ELSE LET m == CHOOSE x \in S : \A y \in S : x <= y
         IN <<m>> \o SetToSeqAsc(S \ {m})

User(id, origin, serial) == [user_id |-> id, origin |-> origin, serial |-> serial]

\* `user:${id}`
RedisKey(id) == <<"user", id>>

\* ---- the factory: options.ttl = opts.ttl || 60 * 15 ----
EffectiveTtl(ttl) == IF ttl = <<>> \/ ttl[1] = 0 THEN DefaultTtl ELSE ttl[1]

\* ---- caller-supplied mock generators ----
\* "same" is allbinaryCreateMockUserFn (user_id: id); "other" is a generator
\* that answers with a document carrying another identifier.
MockUserId(kind, id) == IF kind = "same" THEN id ELSE (id % NumIds) + 1

MockKinds == {"same", "other"}

\* ---- Redis ----
\* JSON.GET: the document, or null when the key is absent or has expired
RedisGet(store, key, t) ==
    IF key \in DOMAIN store /\ store[key].expire_at > t
    THEN <<store[key].doc>>
    ELSE <<>>

\* a slip: the expiry is set only on a key that has none (EXPIRE ... NX)
RedisSetEx_KeepExpiry(store, key, doc, ttl, t) ==
    IF ttl <= 0
    THEN [k \in (DOMAIN store) \ {key} |-> store[k]]
    ELSE [k \in (DOMAIN store) \cup {key} |->
            IF k = key
            THEN [doc |-> doc,
                  expire_at |-> IF key \in DOMAIN store THEN store[key].expire_at
                                ELSE t + ttl]
            ELSE store[k]]

\* a slip: a key that is already set is left alone (JSON.SET ... NX)
RedisSetEx_NX(store, key, doc, ttl, t) ==
    IF key \in DOMAIN store /\ store[key].expire_at > t
    THEN store
    ELSE [k \in (DOMAIN store) \cup {key} |->
            IF k = key THEN [doc |-> doc, expire_at |-> t + ttl] ELSE store[k]]

\* JSON.SET key $ doc followed by EXPIRE key ttl (ttl <= 0 deletes the key)
RedisSetEx(store, key, doc, ttl, t) ==
    IF ttl <= 0
    THEN [k \in (DOMAIN store) \ {key} |-> store[k]]
    ELSE [k \in (DOMAIN store) \cup {key} |->
            IF k = key THEN [doc |-> doc, expire_at |-> t + ttl] ELSE store[k]]

\* keys whose time to live has elapsed are gone
RedisExpire(store, t) ==
    [k \in {x \in DOMAIN store : store[x].expire_at > t} |-> store[k]]

\* ---- pure functions of index.ts ----
\* a slip: the comparison turned around
isTokenValid_Inverted(token, t) == token.exp - SafetyMargin < t

\* a slip: the safety margin left out
isTokenValid_NoMargin(token, t) == token.exp > t

isTokenValid(token, t) == token.exp - SafetyMargin > t

\* a slip: Math.floor for Math.ceil, the last short batch is lost
chunk_Floor(arr, size) ==
    [i \in 1..(Len(arr) \div size) |->
        SubSeq(arr, (i - 1) * size + 1, Min((i - 1) * size + size, Len(arr)))]

chunk(arr, size) ==
    [i \in 1..((Len(arr) + size - 1) \div size) |->
        SubSeq(arr, (i - 1) * size + 1, Min((i - 1) * size + size, Len(arr)))]

\* a slip: the test of the identifier inverted
userExists_Inverted(user) == user # <<>> /\ user[1].user_id = EmptyId

userExists(user) == user # <<>> /\ user[1].user_id # EmptyId

\* a slip: the transaction is built but never executed
MultiSet_NoExec(store, users, ttl, t) == store

\* a slip: the key is made once, from the first user, and used for all
MultiSet_FirstKey(store, users, ttl, t) ==
    IF users = <<>> THEN store
    ELSE RedisSetEx(store, RedisKey(users[1].user_id), users[Len(users)], ttl, t)

\* multi.json.set(...).expire(...) for each user, in order, then exec
RECURSIVE MultiSet(_, _, _, _)
MultiSet(store, users, ttl, t) ==
    IF users = <<>> THEN store
    ELSE MultiSet(RedisSetEx(store, RedisKey(Head(users).user_id), Head(users), ttl, t),
                  Tail(users), ttl, t)

\* (await Promise.all(ids.map(get))).filter(userExists)
CachedUsers(store, ids, t) ==
    LET got == [i \in 1..Len(ids) |-> RedisGet(store, RedisKey(ids[i]), t)]
        hit == SelectSeq(got, userExists)
    IN [i \in 1..Len(hit) |-> hit[i][1]]

\* a slip: the filter keeps every id
IdsNotIn_KeepAll(ids, users) == ids

\* ids.filter((id) => !users.some((u) => u.user_id === id))
IdsNotIn(ids, users) ==
    LET Absent(id) == \A i \in 1..Len(users) : users[i].user_id # id
    IN SelectSeq(ids, Absent)

\* ---- the remote directory ----
\* GET /api/v2/users?q=user_id:("a" OR "b"): the documents of the queried
\* identifiers that exist, in the directory's own order
RemoteLookup(batch) ==
    LET found == SetToSeqAsc(SeqToSet(batch) \cap upstream)
    IN [i \in 1..Len(found) |-> User(found[i], "remote", 0)]

\* ---- a call's locals ----
\* what a call did, in order (a history of the call, for the properties);
\* the token events and the writes carry the time they happened at
Event(ev, ids, n) ==
    [ev |-> ev, ids |-> ids, n |-> n,
     at |-> IF ev \in {"getToken", "exchange", "token", "write"} THEN now ELSE 0]

\* the history of the Redis client: connects counts the invocations of
\* ctx.redis.connect(), disconnected tells that a ctx.redis.disconnect() has
\* completed, writer tells which call wrote each live entry last
NoHist == [connects |-> 0, disconnected |-> FALSE, writer |-> <<>>]

NoCall ==
    [op |-> "none", pc |-> "idle", ids |-> <<>>, req_opts |-> <<>>, opts |-> <<>>,
     q |-> "", users |-> <<>>, cached_users |-> <<>>, missing_ids |-> <<>>,
     batches |-> <<>>, bi |-> 0, fetched_users |-> <<>>,
     still_missing_ids |-> <<>>, mock_users |-> <<>>, set_users |-> <<>>,
     conn_ret |-> "", set_ret |-> "", tok_ret |-> "", result |-> <<>>,
     log |-> <<>>, cache0 |-> <<>>, read_cache |-> <<>>, hist0 |-> NoHist]

\* what is remembered of the operation that came before (a history variable)
Summary(r) ==
    IF r.op = "getUsers"
    THEN [op |-> r.op, pc |-> r.pc, ids |-> r.ids, result |-> r.result]
    ELSE [op |-> r.op, pc |-> r.pc, ids |-> <<>>, result |-> <<>>]

NoPrev == Summary(NoCall)

Finished(c) == calls[c].pc \in {"idle", "done", "failed"}

Logged(r, e) == [r EXCEPT !.log = Append(r.log, e)]

\* the events of one kind in a call's history
EventsOf(r, ev) == LET Is(e) == e.ev = ev IN SelectSeq(r.log, Is)

\* ---- Init: the state the factory leaves ----
TypeConfig ==
    /\ opts_ttl \in {<<>>, <<0>>, <<ShortTtl>>}
    /\ options \in [ttl : {EffectiveTtl(opts_ttl)},
                    create_mock_user_fn : {<<>>} \cup {<<k>> : k \in MockKinds}]

InitCtx ==
    /\ TypeConfig
    /\ now = 0
    /\ cache = <<>>
    /\ isConnected = FALSE
    /\ redis_open = FALSE
    /\ access_token = <<>>
    /\ token_seq = 0
    /\ mock_seq = 0
    /\ ops = 0
    /\ calls = [c \in Calls |-> NoCall]
    /\ prev = NoPrev
    /\ hist = NoHist

Init ==
    /\ InitCtx
    /\ upstream \in {1..k : k \in 0..NumIds}

\* ---- the synchronous continuations of getUsers ----
\* lines 205-224 once the fetched users are stored: return, or go on to
\* the mock generator
AfterFetchWrite(r) ==
    IF options.create_mock_user_fn = <<>>
    THEN [r EXCEPT !.pc = "done", !.result = r.cached_users \o r.fetched_users]
    ELSE LET still == IdsNotIn(r.missing_ids, r.fetched_users)
         IN IF still = <<>>
            THEN [r EXCEPT !.still_missing_ids = still, !.mock_users = <<>>,
                           !.pc = "done",
                           !.result = r.cached_users \o r.fetched_users]
            ELSE [r EXCEPT !.still_missing_ids = still, !.mock_users = <<>>,
                           !.pc = "mock"]

\* setUsers(ctx, users) is entered: its first await is ensureConnected
EnterSetUsers(r, users, ret) ==
    [r EXCEPT !.set_users = users, !.set_ret = ret,
              !.pc = "ensureConnected", !.conn_ret = "multi"]

\* a slip: the cache hits are stored again together with the fetched users
AfterFetch_RewriteHits(r, fetched) ==
    LET r1 == [r EXCEPT !.fetched_users = fetched]
    IN IF r.cached_users \o fetched # <<>>
       THEN EnterSetUsers(r1, r.cached_users \o fetched, "afterFetchWrite")
       ELSE AfterFetchWrite(r1)

\* a slip: the fetched users are not stored before the mock loop
AfterFetch_DeferWrite(r, fetched) ==
    AfterFetchWrite([r EXCEPT !.fetched_users = fetched])

\* lines 197-203 once getAuth0Users has answered (or was skipped)
AfterFetch(r, fetched) ==
    LET r1 == [r EXCEPT !.fetched_users = fetched]
    IN IF fetched # <<>>
       THEN EnterSetUsers(r1, fetched, "afterFetchWrite")
       ELSE AfterFetchWrite(r1)

\* setUsers has returned to the place that called it
AfterSetUsers(r) ==
    CASE r.set_ret = "afterFetchWrite" -> AfterFetchWrite(r)
      [] r.set_ret = "afterMockWrite" ->
            [r EXCEPT !.pc = "done",
                      !.result = r.cached_users \o r.fetched_users \o r.mock_users]
      [] r.set_ret = "searchDone" -> [r EXCEPT !.pc = "done", !.result = r.users]
      [] OTHER -> [r EXCEPT !.pc = "done"]

\* ---- the public operations (the object the factory returns) ----
Begin(c, r) ==
    /\ ops < MaxOps
    /\ Finished(c)
    /\ ops' = ops + 1
    /\ prev' = Summary(calls[c])
    /\ calls' = [calls EXCEPT ![c] = [r EXCEPT !.cache0 = cache, !.hist0 = hist]]

\* getUsers: async (ids) => await getUsers(ctx, ids): whatever options the
\* caller passes, the inner getUsers receives none
StartGetUsers(c, ids, req_opts) ==
    /\ Begin(c, [NoCall EXCEPT !.op = "getUsers", !.ids = ids,
                               !.req_opts = req_opts, !.opts = <<>>,
                               !.pc = "ensureConnected", !.conn_ret = "read"])
    /\ UNCHANGED <<hist, opts_ttl, options, upstream, now, cache, isConnected,
                   redis_open, access_token, token_seq, mock_seq>>

StartSetUsers(c, users) ==
    /\ Begin(c, EnterSetUsers([NoCall EXCEPT !.op = "setUsers", !.users = users],
                              users, "setDone"))
    /\ UNCHANGED <<hist, opts_ttl, options, upstream, now, cache, isConnected,
                   redis_open, access_token, token_seq, mock_seq>>

StartSearchUsers(c, q) ==
    /\ Begin(c, [NoCall EXCEPT !.op = "searchUsers", !.q = q,
                               !.pc = "getToken", !.tok_ret = "search"])
    /\ UNCHANGED <<hist, opts_ttl, options, upstream, now, cache, isConnected,
                   redis_open, access_token, token_seq, mock_seq>>

\* disconnect: if (ctx.isConnected) await ctx.redis.disconnect()
StartDisconnect(c) ==
    /\ Begin(c, IF isConnected
                THEN [Logged(NoCall, Event("redis.disconnect", <<>>, 0))
                         EXCEPT !.op = "disconnect", !.pc = "disconnect"]
                ELSE [NoCall EXCEPT !.op = "disconnect", !.pc = "done"])
    /\ UNCHANGED <<hist, opts_ttl, options, upstream, now, cache, isConnected,
                   redis_open, access_token, token_seq, mock_seq>>

\* ctx.redis.disconnect(): closes the socket; a closed client rejects
Disconnect(c) ==
    /\ calls[c].pc = "disconnect"
    /\ IF redis_open
       THEN /\ redis_open' = FALSE
            /\ hist' = [hist EXCEPT !.disconnected = TRUE]
            /\ calls' = [calls EXCEPT ![c] =
                  [Logged(@, Event("disconnect", <<>>, 0)) EXCEPT !.pc = "done"]]
       ELSE /\ redis_open' = redis_open
            /\ hist' = hist
            /\ calls' = [calls EXCEPT ![c] =
                  [Logged(@, Event("disconnect.rejected", <<>>, 0))
                      EXCEPT !.pc = "failed"]]
    /\ UNCHANGED <<opts_ttl, options, upstream, now, cache, isConnected,
                   access_token, token_seq, mock_seq, ops, prev>>

\* ---- ensureConnected ----
\* if (!ctx.isConnected) { await ctx.redis.connect(); ... }
EnsureConnected(c) ==
    /\ calls[c].pc = "ensureConnected"
    /\ calls' = [calls EXCEPT ![c].pc =
                    IF isConnected THEN calls[c].conn_ret ELSE "connect"]
    /\ hist' = IF isConnected THEN hist
               ELSE [hist EXCEPT !.connects = hist.connects + 1]
    /\ UNCHANGED <<opts_ttl, options, upstream, now, cache, isConnected,
                   redis_open, access_token, token_seq, mock_seq, ops, prev>>

\* ctx.redis.connect() resolves; ctx.isConnected = true
Connect(c) ==
    /\ calls[c].pc = "connect"
    /\ redis_open' = TRUE
    /\ isConnected' = TRUE
    /\ calls' = [calls EXCEPT ![c] =
          [Logged(@, Event("connect", <<>>, 0)) EXCEPT !.pc = calls[c].conn_ret]]
    /\ UNCHANGED <<hist, opts_ttl, options, upstream, now, cache, access_token,
                   token_seq, mock_seq, ops, prev>>

\* ---- setUsers: multi ... exec ----
\* the call that wrote each entry of the store last (a history of the writes)
WrittenBy(writer, store, keys, c) ==
    [k \in DOMAIN store |->
        IF k \in keys THEN c
        ELSE IF k \in DOMAIN writer THEN writer[k] ELSE 0]

MultiExec(c) ==
    /\ calls[c].pc = "multi"
    /\ IF redis_open
       THEN /\ cache' = MultiSet(cache, calls[c].set_users, options.ttl, now)
            /\ hist' = [hist EXCEPT !.writer =
                  WrittenBy(hist.writer, cache',
                            {RedisKey(id) : id \in SeqToSet(UserIds(calls[c].set_users))},
                            c)]
            /\ calls' = [calls EXCEPT ![c] =
                  AfterSetUsers(Logged(@, Event("write", UserIds(calls[c].set_users),
                                                options.ttl)))]
       ELSE /\ cache' = cache
            /\ hist' = hist
            /\ calls' = [calls EXCEPT ![c] =
                  [Logged(@, Event("io.rejected", UserIds(calls[c].set_users), 0))
                      EXCEPT !.pc = "failed"]]
    /\ UNCHANGED <<opts_ttl, options, upstream, now, isConnected, redis_open,
                   access_token, token_seq, mock_seq, ops, prev>>

\* ---- getUsers: the cache reads and what follows without an await ----
ForceFetch(opts) == opts # <<>> /\ opts[1].force_fetch

ReadCache(c) ==
    /\ calls[c].pc = "read"
    /\ LET r == calls[c]
           force == ForceFetch(r.opts)
       IN IF ~force /\ ~redis_open
          THEN calls' = [calls EXCEPT ![c] =
                  [Logged(@, Event("io.rejected", r.ids, 0)) EXCEPT !.pc = "failed"]]
          ELSE LET cached == IF force THEN <<>> ELSE CachedUsers(cache, r.ids, now)
                   missing == IdsNotIn(r.ids, cached)
                   r0 == IF force \/ r.ids = <<>> THEN r
                         ELSE Logged(r, Event("read", r.ids, 0))
                   r1 == [r0 EXCEPT !.cached_users = cached,
                                    !.missing_ids = missing,
                                    !.read_cache = cache]
                   batches == IF missing # <<>> THEN chunk(missing, BatchSize)
                              ELSE <<>>
               IN calls' = [calls EXCEPT ![c] =
                     IF batches # <<>>
                     THEN [r1 EXCEPT !.batches = batches,
                                     !.bi = 1, !.users = <<>>,
                                     !.pc = "getToken", !.tok_ret = "lookup"]
                     ELSE AfterFetch(r1, <<>>)]
    /\ UNCHANGED <<hist, opts_ttl, options, upstream, now, cache, isConnected,
                   redis_open, access_token, token_seq, mock_seq, ops, prev>>

\* ---- getToken ----
TokenExp(tok) == IF tok = <<>> THEN 0 ELSE tok[1].exp

\* if (!ctx.access_token || !isTokenValid(ctx.access_token)) ... else return
GetToken(c) ==
    /\ calls[c].pc = "getToken"
    /\ LET r == Logged(calls[c], Event("getToken", access_token, TokenExp(access_token)))
       IN calls' = [calls EXCEPT ![c] =
             IF access_token = <<>> \/ ~isTokenValid(access_token[1], now)
             THEN [r EXCEPT !.pc = "exchange"]
             ELSE [Logged(r, Event("token", access_token, access_token[1].exp))
                      EXCEPT !.pc = r.tok_ret]]
    /\ UNCHANGED <<hist, opts_ttl, options, upstream, now, cache, isConnected,
                   redis_open, access_token, token_seq, mock_seq, ops, prev>>

\* POST /oauth/token answers; ctx.access_token = the new token; return it
\* the lifetime of the token is the identity provider's choice
TokenLifetimes == {SafetyMargin, SafetyMargin + ShortLife}

\* a slip: a token another call stored in the meantime is kept and returned
Exchange_KeepStored(c, life) ==
    /\ calls[c].pc = "exchange"
    /\ LET tok == [id |-> token_seq + 1, exp |-> now + life]
           kept == IF access_token = <<>> THEN <<tok>> ELSE access_token
       IN /\ access_token' = kept
          /\ token_seq' = token_seq + 1
          /\ calls' = [calls EXCEPT ![c] =
                [Logged(Logged(@, Event("exchange", <<tok>>, tok.exp)),
                        Event("token", kept, kept[1].exp))
                   EXCEPT !.pc = calls[c].tok_ret]]
    /\ UNCHANGED <<hist, opts_ttl, options, upstream, now, cache, isConnected,
                   redis_open, mock_seq, ops, prev>>

Exchange(c, life) ==
    /\ calls[c].pc = "exchange"
    /\ LET tok == [id |-> token_seq + 1, exp |-> now + life]
       IN /\ access_token' = <<tok>>
          /\ token_seq' = token_seq + 1
          /\ calls' = [calls EXCEPT ![c] =
                [Logged(Logged(@, Event("exchange", <<tok>>, tok.exp)),
                        Event("token", <<tok>>, tok.exp))
                   EXCEPT !.pc = calls[c].tok_ret]]
    /\ UNCHANGED <<hist, opts_ttl, options, upstream, now, cache, isConnected,
                   redis_open, mock_seq, ops, prev>>

\* ---- getAuth0Users: one request per batch, one after another ----
Lookup(c) ==
    /\ calls[c].pc = "lookup"
    /\ LET r == calls[c]
           batch == r.batches[r.bi]
           users == r.users \o RemoteLookup(batch)
           r1 == [Logged(r, Event("lookup", batch, 0)) EXCEPT !.users = users]
       IN calls' = [calls EXCEPT ![c] =
             IF r.bi < Len(r.batches)
             THEN [r1 EXCEPT !.bi = r.bi + 1, !.pc = "getToken"]
             ELSE AfterFetch(r1, users)]
    /\ UNCHANGED <<hist, opts_ttl, options, upstream, now, cache, isConnected,
                   redis_open, access_token, token_seq, mock_seq, ops, prev>>

\* ---- the mock loop: one generator call per still missing id ----
MockGen(c) ==
    /\ calls[c].pc = "mock"
    /\ LET r == calls[c]
           id == r.still_missing_ids[Len(r.mock_users) + 1]
           doc == User(MockUserId(options.create_mock_user_fn[1], id), "mock",
                       mock_seq + 1)
           mocks == Append(r.mock_users, doc)
           r1 == [Logged(r, Event("mock", <<id>>, 0)) EXCEPT !.mock_users = mocks]
       IN calls' = [calls EXCEPT ![c] =
             IF Len(mocks) < Len(r.still_missing_ids)
             THEN r1
             ELSE EnterSetUsers(r1, mocks, "afterMockWrite")]
    /\ mock_seq' = mock_seq + 1
    /\ UNCHANGED <<hist, opts_ttl, options, upstream, now, cache, isConnected,
                   redis_open, access_token, token_seq, ops, prev>>

\* ---- searchUsers: GET /api/v2/users?q=email:/q/ answers ----
\* which users match is the directory's business: any set of existing users
Search(c, found) ==
    /\ calls[c].pc = "search"
    /\ LET r == calls[c]
           ids == SetToSeqAsc(found)
           users == [i \in 1..Len(ids) |-> User(ids[i], "remote", 0)]
       IN calls' = [calls EXCEPT ![c] =
             EnterSetUsers([Logged(r, Event("search", ids, 0)) EXCEPT !.users = users],
                           users, "searchDone")]
    /\ UNCHANGED <<hist, opts_ttl, options, upstream, now, cache, isConnected,
                   redis_open, access_token, token_seq, mock_seq, ops, prev>>

\* ---- the clock ----
Tick ==
    /\ now < MaxNow
    /\ now' = now + 1
    /\ cache' = RedisExpire(cache, now + 1)
    /\ hist' = [hist EXCEPT !.writer = WrittenBy(hist.writer, cache', {}, 0)]
    /\ UNCHANGED <<opts_ttl, options, upstream, isConnected, redis_open,
                   access_token, token_seq, mock_seq, ops, calls, prev>>

\* ---- inputs ----
IdLists ==
    {s \in UNION {[1..n -> Ids] : n \in 0..NumIds} :
        \A i, j \in 1..Len(s) : s[i] = s[j] => i = j}

CallerUsers == {[i \in 1..Len(s) |-> User(s[i], "caller", 0)] : s \in IdLists}

GetUsersOpts == {<<>>, <<[force_fetch |-> TRUE]>>}

Queries == {"chris"}

\* the caller awaits each operation before starting the next
Sequential(c) == c = 1 /\ \A d \in Calls : Finished(d)

Step(c) ==
    \/ EnsureConnected(c)
    \/ Connect(c)
    \/ ReadCache(c)
    \/ GetToken(c)
    \/ \E life \in TokenLifetimes : Exchange(c, life)
    \/ Lookup(c)
    \/ MultiExec(c)
    \/ MockGen(c)
    \/ \E found \in SUBSET upstream : Search(c, found)
    \/ Disconnect(c)

Next ==
    \/ \E c \in Calls :
          /\ Sequential(c)
          /\ \/ \E ids \in IdLists, o \in GetUsersOpts : StartGetUsers(c, ids, o)
             \/ \E users \in CallerUsers : StartSetUsers(c, users)
             \/ \E q \in Queries : StartSearchUsers(c, q)
             \/ StartDisconnect(c)
    \/ \E c \in Calls : Step(c)
    \/ Tick

Spec == Init /\ [][Next]_vars

\* ---- getUsers on long lists: the batching of the remote lookup ----
\* the directory holds every identifier, none, or the even ones
InitBatch ==
    /\ InitCtx
    /\ options.create_mock_user_fn = <<>>
    /\ upstream \in {BatchIds, {}, {i \in BatchIds : i % 2 = 0}}

\* 1..n and n..1
BatchLists ==
    {[i \in 1..n |-> i] : n \in 0..MaxBatchIds}
        \cup {[i \in 1..n |-> n + 1 - i] : n \in 0..MaxBatchIds}

NextBatch ==
    \/ \E c \in Calls :
          /\ Sequential(c)
          /\ ops < MaxBatchOps
          /\ \E ids \in BatchLists : StartGetUsers(c, ids, <<>>)
    \/ \E c \in Calls :
          \/ EnsureConnected(c)
          \/ Connect(c)
          \/ ReadCache(c)
          \/ GetToken(c)
          \/ \E life \in TokenLifetimes : Exchange(c, life)
          \/ Lookup(c)
          \/ MultiExec(c)

SpecBatch == InitBatch /\ [][NextBatch]_vars

\* ---- operations started without awaiting the ones before ----
\* ctx.redis.connect() on a client whose socket is already opened or being
\* opened: the client may reject the call
ConnectRejects(c) ==
    /\ calls[c].pc = "connect"
    /\ hist.connects > 1
    /\ calls' = [calls EXCEPT ![c] =
          [Logged(@, Event("connect.rejected", <<>>, 0)) EXCEPT !.pc = "failed"]]
    /\ UNCHANGED <<hist, opts_ttl, options, upstream, now, cache, isConnected,
                   redis_open, access_token, token_seq, mock_seq, ops, prev>>

\* the caller starts an operation while others are in flight (Promise.all);
\* the call takes the first free slot
Overlapping(c) ==
    /\ ops < MaxConcOps
    /\ Finished(c)
    /\ \A d \in 1..(c - 1) : ~Finished(d)

\* the lists 1..n, so that overlapping calls ask for the same identifiers
ConcLists == {[i \in 1..n |-> i] : n \in 1..NumIds}

ConcUsers == {[i \in 1..Len(s) |-> User(s[i], "caller", 0)] : s \in ConcLists}

InitConc ==
    /\ Init
    /\ opts_ttl # <<0>>

NextConc ==
    \/ \E c \in Calls :
          /\ Overlapping(c)
          /\ \/ \E ids \in ConcLists : StartGetUsers(c, ids, <<>>)
             \/ \E users \in ConcUsers : StartSetUsers(c, users)
             \/ \E q \in Queries : StartSearchUsers(c, q)
             \/ StartDisconnect(c)
    \/ \E c \in Calls : Step(c)
    \/ \E c \in Calls : ConnectRejects(c)
    \/ Tick

SpecConc == InitConc /\ [][NextConc]_vars

\* ---- the collaborators fail: a rejected promise is not caught anywhere ----
\* a slip: the answers of the batches before the failed one are kept
LookupFails_KeepPartial(c) ==
    /\ calls[c].pc = "lookup"
    /\ calls' = [calls EXCEPT ![c] =
          AfterFetch(Logged(@, Event("lookup.failed", @.batches[@.bi], 0)), @.users)]
    /\ UNCHANGED <<hist, opts_ttl, options, upstream, now, cache, isConnected,
                   redis_open, access_token, token_seq, mock_seq, ops, prev>>

\* the GET of a batch rejects: getAuth0Users, and with it getUsers, rejects
LookupFails(c) ==
    /\ calls[c].pc = "lookup"
    /\ calls' = [calls EXCEPT ![c] =
          [Logged(@, Event("lookup.failed", @.batches[@.bi], 0)) EXCEPT !.pc = "failed"]]
    /\ UNCHANGED <<hist, opts_ttl, options, upstream, now, cache, isConnected,
                   redis_open, access_token, token_seq, mock_seq, ops, prev>>

\* a slip: the exchange is tried again
ExchangeFails_Retry(c) ==
    /\ calls[c].pc = "exchange"
    /\ Len(EventsOf(calls[c], "exchange.failed")) < MaxFailOps
    /\ calls' = [calls EXCEPT ![c] =
          Logged(@, Event("exchange.failed", access_token, TokenExp(access_token)))]
    /\ UNCHANGED <<hist, opts_ttl, options, upstream, now, cache, isConnected,
                   redis_open, access_token, token_seq, mock_seq, ops, prev>>

\* POST /oauth/token rejects: getToken rejects, ctx.access_token not assigned
ExchangeFails(c) ==
    /\ calls[c].pc = "exchange"
    /\ calls' = [calls EXCEPT ![c] =
          [Logged(@, Event("exchange.failed", access_token, TokenExp(access_token)))
              EXCEPT !.pc = "failed"]]
    /\ UNCHANGED <<hist, opts_ttl, options, upstream, now, cache, isConnected,
                   redis_open, access_token, token_seq, mock_seq, ops, prev>>

\* a slip: the failure is caught and the mock users made so far are stored
MockFails_WriteSoFar(c) ==
    /\ calls[c].pc = "mock"
    /\ LET r == calls[c]
           id == r.still_missing_ids[Len(r.mock_users) + 1]
       IN calls' = [calls EXCEPT ![c] =
             EnterSetUsers(Logged(r, Event("mock.failed", <<id>>, 0)),
                           r.mock_users, "setDone")]
    /\ UNCHANGED <<hist, opts_ttl, options, upstream, now, cache, isConnected,
                   redis_open, access_token, token_seq, mock_seq, ops, prev>>

\* create_mock_user_fn(id) rejects: the loop is left, getUsers rejects
MockFails(c) ==
    /\ calls[c].pc = "mock"
    /\ LET r == calls[c]
           id == r.still_missing_ids[Len(r.mock_users) + 1]
       IN calls' = [calls EXCEPT ![c] =
             [Logged(r, Event("mock.failed", <<id>>, 0)) EXCEPT !.pc = "failed"]]
    /\ UNCHANGED <<hist, opts_ttl, options, upstream, now, cache, isConnected,
                   redis_open, access_token, token_seq, mock_seq, ops, prev>>

\* the GET of searchUsers rejects
SearchFails(c) ==
    /\ calls[c].pc = "search"
    /\ calls' = [calls EXCEPT ![c] =
          [Logged(@, Event("search.failed", <<>>, 0)) EXCEPT !.pc = "failed"]]
    /\ UNCHANGED <<hist, opts_ttl, options, upstream, now, cache, isConnected,
                   redis_open, access_token, token_seq, mock_seq, ops, prev>>

\* multi.exec() rejects on an open client: nothing of the transaction is stored
MultiExecFails(c) ==
    /\ calls[c].pc = "multi"
    /\ redis_open
    /\ calls' = [calls EXCEPT ![c] =
          [Logged(@, Event("write.failed", UserIds(@.set_users), 0))
              EXCEPT !.pc = "failed"]]
    /\ UNCHANGED <<hist, opts_ttl, options, upstream, now, cache, isConnected,
                   redis_open, access_token, token_seq, mock_seq, ops, prev>>

NextFail ==
    \/ \E c \in Calls :
          /\ Sequential(c)
          /\ ops < MaxFailOps
          /\ \/ \E ids \in IdLists, o \in GetUsersOpts : StartGetUsers(c, ids, o)
             \/ \E users \in CallerUsers : StartSetUsers(c, users)
             \/ \E q \in Queries : StartSearchUsers(c, q)
             \/ StartDisconnect(c)
    \/ \E c \in Calls : Step(c)
    \/ Tick
    \/ \E c \in Calls : LookupFails(c)
    \/ \E c \in Calls : ExchangeFails(c)
    \/ \E c \in Calls : MockFails(c)
    \/ \E c \in Calls : SearchFails(c)
    \/ \E c \in Calls : MultiExecFails(c)

SpecFail == Init /\ [][NextFail]_vars

\* ---- a batch of a long list fails ----
\* the lists 1..n for n = 0, 5, 10, ...
FailLists == {[i \in 1..n |-> i] : n \in {k \in 0..MaxBatchIds : k % 5 = 0}}

NextBatchFail ==
    \/ \E c \in Calls :
          /\ Sequential(c)
          /\ ops < MaxFailOps
          /\ \E ids \in FailLists : StartGetUsers(c, ids, <<>>)
    \/ \E c \in Calls :
          \/ EnsureConnected(c)
          \/ Connect(c)
          \/ ReadCache(c)
          \/ GetToken(c)
          \/ \E life \in TokenLifetimes : Exchange(c, life)
          \/ Lookup(c)
          \/ MultiExec(c)
          \/ LookupFails(c)

SpecBatchFail == InitBatch /\ [][NextBatchFail]_vars

(***************************************************************************)
(* Properties                                                              *)
(***************************************************************************)
\* Tick drops the keys whose time to live has elapsed, so the keys of a
\* store are the live ones
Stored(store, id) == RedisKey(id) \in DOMAIN store

GetUsersDone(c) == calls[c].op = "getUsers" /\ calls[c].pc = "done"

CountId(res, id) == Cardinality({i \in 1..Len(res) : res[i].user_id = id})

\* the document the remote directory holds for an identifier
RemoteDoc(id) == User(id, "remote", 0)

\* the three groups of a getUsers result, told apart by the documents alone:
\* 1 = the document the cache held when it was read, 2 = a document of the
\* remote directory, 3 = a document of the mock generator
Group(r, u) ==
    IF Stored(r.read_cache, u.user_id) /\ r.read_cache[RedisKey(u.user_id)].doc = u
    THEN 1
    ELSE IF u.origin = "remote" THEN 2 ELSE 3

FaithfulGenerator ==
    options.create_mock_user_fn # <<>> => options.create_mock_user_fn[1] = "same"

\* the ids of S the cache did not hold when it was read, in input order
Misses(r) == LET Miss(id) == ~Stored(r.read_cache, id) IN SelectSeq(r.ids, Miss)

\* what holds of every result, whatever the generator: cache hits of the
\* ids of S in input order, then the remote documents of the missed ids that
\* exist upstream, then one generated document per missed id that does not
C1_Shape(r) ==
    LET res == r.result
        IsHit(id) == Stored(r.read_cache, id)
        hits == SelectSeq(r.ids, IsHit)
        Up(id) == id \in upstream
        NotUp(id) == id \notin upstream
        fetched == SelectSeq(Misses(r), Up)
        rest == IF options.create_mock_user_fn = <<>> THEN <<>>
                ELSE SelectSeq(Misses(r), NotUp)
        nh == Len(hits)
        nf == Len(fetched)
    IN /\ Len(res) = nh + nf + Len(rest)
       /\ \A i \in 1..nh : res[i] = r.read_cache[RedisKey(hits[i])].doc
       /\ {res[nh + i] : i \in 1..nf} = {RemoteDoc(fetched[i]) : i \in 1..nf}
       /\ \A i \in 1..Len(rest) :
             /\ res[nh + nf + i].origin = "mock"
             /\ res[nh + nf + i].user_id =
                   MockUserId(options.create_mock_user_fn[1], rest[i])
             /\ Group(r, res[nh + nf + i]) = 3

\* the claim as it is worded
C1_Worded(r) ==
    LET res == r.result
        S == SeqToSet(r.ids)
        known == {id \in S : Stored(r.read_cache, id) \/ id \in upstream}
    IN /\ \A i \in 1..Len(res) : res[i].user_id \in S
       /\ \A id \in known : CountId(res, id) = 1
       /\ \A id \in S \ known :
             /\ CountId(res, id) <= 1
             /\ \A i \in 1..Len(res) : res[i].user_id = id => Group(r, res[i]) = 3
       /\ \A i, j \in 1..Len(res) : i < j => Group(r, res[i]) <= Group(r, res[j])
       /\ \A i, j \in 1..Len(res) :
             res[i].user_id = res[j].user_id => Group(r, res[i]) = Group(r, res[j])

\* C1 (as worded): a successful getUsers(S) returns exactly one record per id
\* of S that is cached or exists upstream and at most one mock record per id
\* that is neither, ordered hits, fetched, mocks, no identifier in two groups.
C1_AsWorded == \A c \in Calls : GetUsersDone(c) => C1_Worded(calls[c])

\* C1 (amended): a successful getUsers(S) returns the cache hits, then the
\* fetched records, then one generated record per id that is neither cached
\* nor upstream (none without a generator); when the generator answers with
\* the id it was asked for, that is exactly one record per id that is cached
\* or upstream, one mock per id that is neither, and no identifier in two
\* groups.
C1_ResultGroups ==
    \A c \in Calls :
        GetUsersDone(c) =>
            /\ C1_Shape(calls[c])
            /\ FaithfulGenerator => C1_Worded(calls[c])

\* a call that returned a hit, a fetched record and nothing else although a
\* further id was asked, or a hit and a mock record
C1_Witness ==
    \E c \in Calls :
        /\ GetUsersDone(c)
        /\ Len(calls[c].ids) = NumIds
        /\ \E i, j \in 1..Len(calls[c].result) :
              /\ Group(calls[c], calls[c].result[i]) = 1
              /\ Group(calls[c], calls[c].result[j]) > 1

\* the operation before the current one was a successful getUsers(ids)
PrevGetUsers(ids) == prev.op = "getUsers" /\ prev.pc = "done" /\ prev.ids = ids

\* C2: getUsers([id]) right after a getUsers([id]), while the entry of id is
\* still live when the second call reads the cache, returns the record the
\* first call returned, taken from the cache, and sends no lookup request.
C2_SecondCallFromCache ==
    \A c \in Calls :
        LET r == calls[c]
        IN (/\ GetUsersDone(c)
            /\ Len(r.ids) = 1
            /\ PrevGetUsers(r.ids)
            /\ Stored(r.read_cache, r.ids[1]))
           => /\ r.result = prev.result
              /\ r.result = <<r.read_cache[RedisKey(r.ids[1])].doc>>
              /\ EventsOf(r, "lookup") = <<>>
              /\ EventsOf(r, "exchange") = <<>>

\* a second call served from the entry the first call fetched and stored
C2_Witness ==
    \E c \in Calls :
        /\ GetUsersDone(c)
        /\ Len(calls[c].ids) = 1
        /\ PrevGetUsers(calls[c].ids)
        /\ Stored(calls[c].read_cache, calls[c].ids[1])
        /\ Len(prev.result) = 1
        /\ prev.result[1].origin = "remote"
        /\ calls[c].cache0 # <<>>

\* C3: getUsers(ids, {force_fetch: true}) on the library object reads nothing
\* from the cache and requests every id of ids from the remote directory.
C3_ForceFetchSkipsCache ==
    \A c \in Calls :
        LET r == calls[c]
            lookups == EventsOf(r, "lookup")
        IN (GetUsersDone(c) /\ ForceFetch(r.req_opts))
           => /\ EventsOf(r, "read") = <<>>
              /\ \A id \in SeqToSet(r.ids) :
                    \E k \in 1..Len(lookups) : id \in SeqToSet(lookups[k].ids)

\* the last write of a call, if it made one
LastWrite(r) == LET w == EventsOf(r, "write") IN w[Len(w)]

C4_Worded(r) ==
    LET id == r.ids[1]
    IN /\ ~Stored(r.read_cache, id) =>
            /\ Len(r.result) = 1
            /\ r.result[1].origin = "mock"
            /\ r.result[1].user_id = id
            /\ EventsOf(r, "write") # <<>>
            /\ now < LastWrite(r).at + options.ttl =>
                  /\ Stored(cache, id)
                  /\ cache[RedisKey(id)].doc = r.result[1]
       /\ (/\ PrevGetUsers(r.ids)
           /\ Len(prev.result) = 1
           /\ prev.result[1].origin = "mock"
           /\ Stored(r.read_cache, prev.result[1].user_id)
           /\ r.read_cache[RedisKey(prev.result[1].user_id)].doc = prev.result[1])
          => /\ r.result = prev.result
             /\ EventsOf(r, "lookup") = <<>>
             /\ EventsOf(r, "mock") = <<>>

C4_Case(c) ==
    /\ GetUsersDone(c)
    /\ Len(calls[c].ids) = 1
    /\ options.create_mock_user_fn # <<>>
    /\ calls[c].ids[1] \notin upstream

\* C4 (as worded): with a generator configured and an id the directory does
\* not return, getUsers([id]) returns one generated record for that id and
\* the cache then holds it under that id; a second getUsers([id]) while the
\* mock's entry is live returns it without a lookup or a generator call.
C4_AsWorded == \A c \in Calls : C4_Case(c) => C4_Worded(calls[c])

\* C4 (amended): the same, for a generator that answers with a record whose
\* user_id is the id it was asked for.
C4_MockBackfill ==
    \A c \in Calls : (C4_Case(c) /\ FaithfulGenerator) => C4_Worded(calls[c])

\* the second call, answered with the mock the first call generated
C4_Witness ==
    \E c \in Calls :
        /\ C4_Case(c)
        /\ FaithfulGenerator
        /\ PrevGetUsers(calls[c].ids)
        /\ Len(prev.result) = 1
        /\ prev.result[1].origin = "mock"
        /\ calls[c].result = prev.result
        /\ prev.result[1].serial = mock_seq

\* a key of the store is as it was in an earlier snapshot, or has expired
Untouched(before, k) ==
    /\ k \in DOMAIN cache => k \in DOMAIN before /\ cache[k] = before[k]
    /\ k \in (DOMAIN before) \ (DOMAIN cache) => before[k].expire_at <= now

\* the identifiers a call wrote, from its history
WrittenIds(r) ==
    LET w == EventsOf(r, "write")
    IN UNION {SeqToSet(w[i].ids) : i \in 1..Len(w)}

\* a record the call stored is in the cache as the call's last write of its
\* key left it, until its time to live elapses
StoredAsWritten(r, u) ==
    LET w == EventsOf(r, "write")
        mine == {i \in 1..Len(w) : u.user_id \in SeqToSet(w[i].ids)}
        last == CHOOSE i \in mine : \A j \in mine : j <= i
        k == RedisKey(u.user_id)
    IN /\ mine # {}
       /\ IF now < w[last].at + options.ttl
          THEN /\ k \in DOMAIN cache
               /\ cache[k] = [doc |-> u, expire_at |-> w[last].at + options.ttl]
          ELSE k \notin DOMAIN cache

\* what holds of the writes of every successful getUsers
C5_Writes(r) ==
    LET res == r.result
        new == {i \in 1..Len(res) : Group(r, res[i]) > 1}
    IN /\ WrittenIds(r) = {res[i].user_id : i \in new}
       /\ \A k \in (DOMAIN cache) \cup (DOMAIN r.read_cache) :
             (\A i \in new : k # RedisKey(res[i].user_id)) => Untouched(r.read_cache, k)
       /\ options.create_mock_user_fn = <<>> =>
             \A id \in SeqToSet(r.ids) :
                (~Stored(r.read_cache, id) /\ id \notin upstream) =>
                    CountId(res, id) = 0 /\ ~Stored(cache, id)

\* the cache hits are left alone: same document, same expiry
C5_HitsKept(r) ==
    \A i \in 1..Len(r.result) :
        Group(r, r.result[i]) = 1 =>
            Untouched(r.read_cache, RedisKey(r.result[i].user_id))

\* the fetched and the generated records are in the cache as written
C5_NewStored(r) ==
    \A i \in 1..Len(r.result) :
        Group(r, r.result[i]) > 1 => StoredAsWritten(r, r.result[i])

\* C5 (as worded): a successful getUsers(S) writes exactly the records it
\* fetched and the mock records it generated; cache hits are not rewritten
\* and keep their expiry; without a generator an id that is neither cached
\* nor upstream is not in the result and gets no cache entry.
C5_AsWorded ==
    \A c \in Calls : GetUsersDone(c) => C5_Writes(calls[c]) /\ C5_HitsKept(calls[c])

\* C5 (amended): as worded, except that a cache hit is left alone only if no
\* generated record carries its user_id, which a generator that answers with
\* the requested id guarantees (and then every record the call wrote is in
\* the cache as written).
C5_WritesOnlyMisses ==
    \A c \in Calls :
        GetUsersDone(c) =>
            /\ C5_Writes(calls[c])
            /\ FaithfulGenerator => C5_HitsKept(calls[c]) /\ C5_NewStored(calls[c])

\* one id served from an entry stored a second earlier, the other fetched
\* and stored
C5_Witness ==
    \E c \in Calls :
        /\ GetUsersDone(c)
        /\ \E i, j \in 1..Len(calls[c].result) :
              LET u == calls[c].result[i]
                  v == calls[c].result[j]
              IN /\ Group(calls[c], u) = 1
                 /\ Group(calls[c], v) = 2
                 /\ Stored(cache, u.user_id) /\ Stored(cache, v.user_id)
                 /\ cache[RedisKey(u.user_id)].expire_at
                       < cache[RedisKey(v.user_id)].expire_at

SearchDone(c) == calls[c].op = "searchUsers" /\ calls[c].pc = "done"

\* C6: searchUsers returns what the remote search returned; every returned
\* record is then stored under its own identifier with its expiry set to the
\* context's TTL from the write; every other entry is as it was.
C6_SearchRefreshesCache ==
    \A c \in Calls :
        LET r == calls[c]
            found == EventsOf(r, "search")
        IN SearchDone(c) =>
              /\ Len(found) = 1
              /\ r.result = [i \in 1..Len(found[1].ids) |-> RemoteDoc(found[1].ids[i])]
              /\ \A i \in 1..Len(r.result) : StoredAsWritten(r, r.result[i])
              /\ \A k \in (DOMAIN cache) \cup (DOMAIN r.cache0) :
                    (\A i \in 1..Len(r.result) : k # RedisKey(r.result[i].user_id))
                       => Untouched(r.cache0, k)

\* a search that returned a record already cached, whose expiry it moved,
\* while another entry stayed as it was
C6_Witness ==
    \E c \in Calls :
        /\ SearchDone(c)
        /\ \E i \in 1..Len(calls[c].result) :
              LET k == RedisKey(calls[c].result[i].user_id)
              IN /\ k \in DOMAIN calls[c].cache0
                 /\ k \in DOMAIN cache
                 /\ cache[k].expire_at > calls[c].cache0[k].expire_at
        /\ \E k \in DOMAIN cache :
              /\ \A i \in 1..Len(calls[c].result) :
                    k # RedisKey(calls[c].result[i].user_id)
              /\ k \in DOMAIN calls[c].cache0

\* a stored token (optional) is usable at time t
ValidAt(tok, t) == tok # <<>> /\ tok[1].exp - SafetyMargin > t

C8_AsWorded ==
    \A c \in Calls :
        LET log == calls[c].log
        IN \A i \in 1..Len(log) :
              log[i].ev = "token" => ValidAt(log[i].ids, log[i].at)

\* C8 (amended): every token getToken returns without an exchange satisfies
\* now < expiry - 60 when it is returned; after an exchange getToken returns
\* the token just issued, as it is.
C8_ReusedTokenValid ==
    \A c \in Calls :
        LET log == calls[c].log
        IN \A i \in 1..Len(log) :
              log[i].ev = "token" =>
                 /\ i > 1
                 /\ log[i - 1].ev \in {"getToken", "exchange"}
                 /\ log[i].ids = log[i - 1].ids
                 /\ log[i].at = log[i - 1].at
                 /\ log[i - 1].ev = "getToken" => ValidAt(log[i].ids, log[i].at)

\* a token issued for an earlier operation, returned again while valid
C8_Witness ==
    \E c \in Calls :
        LET log == calls[c].log
        IN \E i \in 2..Len(log) :
              /\ log[i].ev = "token"
              /\ log[i - 1].ev = "getToken"
              /\ ops > 1

\* the ttl of the configuration: the one supplied, 900 when none is
ConfiguredTtl == IF opts_ttl = <<>> THEN DefaultTtl ELSE opts_ttl[1]

\* C10: whatever ttl t the configuration supplies, 0 included, a record the
\* library writes expires t seconds after the write and is absent from then
\* on; 900 applies only when no ttl is supplied.
C10_SuppliedTtlHonoured ==
    \A c \in Calls :
        LET w == EventsOf(calls[c], "write")
        IN \A i \in 1..Len(w) :
              \A id \in SeqToSet(w[i].ids) :
                 (\A j \in (i + 1)..Len(w) : id \notin SeqToSet(w[j].ids)) =>
                    IF now < w[i].at + ConfiguredTtl
                    THEN /\ Stored(cache, id)
                         /\ cache[RedisKey(id)].expire_at = w[i].at + ConfiguredTtl
                    ELSE ~Stored(cache, id)

\* ceil(n / 10), and the k-th group of at most 10 of a list
CeilDiv(n, d) == IF n % d = 0 THEN n \div d ELSE (n \div d) + 1

NthBatch(ids, k) ==
    [i \in 1..Min(BatchSize, Len(ids) - (k - 1) * BatchSize) |->
        ids[(k - 1) * BatchSize + i]]

\* the answers of the directory to the first k batches, one after the other
RECURSIVE BatchAnswers(_, _)
BatchAnswers(ids, k) ==
    IF k = 0 THEN <<>>
    ELSE BatchAnswers(ids, k - 1) \o RemoteLookup(NthBatch(ids, k))

\* C9: to fetch n identifiers the remote lookup sends exactly ceil(n/10)
\* requests, one after another, the k-th carrying the k-th group of at most
\* 10 identifiers in input order (all of size 10 but possibly the last), and
\* the fetched users are the answers in batch order.
C9_Batching ==
    \A c \in Calls :
        LET r == calls[c]
            miss == Misses(r)
            n == Len(miss)
            lookups == EventsOf(r, "lookup")
            hits == Len(r.ids) - n
        IN r.op = "getUsers" =>
              /\ Len(lookups) <= CeilDiv(n, BatchSize)
              /\ \A k \in 1..Len(lookups) :
                    /\ lookups[k].ids = NthBatch(miss, k)
                    /\ Len(lookups[k].ids) =
                          IF k < CeilDiv(n, BatchSize) THEN BatchSize
                          ELSE n - (k - 1) * BatchSize
              /\ r.pc = "lookup" => r.users = BatchAnswers(miss, Len(lookups))
              /\ r.pc = "done" =>
                    LET answers == BatchAnswers(miss, CeilDiv(n, BatchSize))
                    IN /\ Len(lookups) = CeilDiv(n, BatchSize)
                       /\ SubSeq(r.result, hits + 1, hits + Len(answers)) = answers

\* 25 identifiers fetched in three requests of 10, 10 and 5
C9_Witness ==
    \E c \in Calls :
        LET lookups == EventsOf(calls[c], "lookup")
        IN /\ GetUsersDone(c)
           /\ Len(Misses(calls[c])) = 2 * BatchSize + 5
           /\ Len(lookups) = 3
           /\ Len(lookups[1].ids) = 10
           /\ Len(lookups[2].ids) = 10
           /\ Len(lookups[3].ids) = 5
           /\ Len(calls[c].result) = 12

\* C11: over any interleaving of public operations on one context, two
\* operations started before the first connection attempt has completed
\* included, ctx.redis.connect() is invoked at most once.
C11_ConnectAtMostOnce == hist.connects <= 1

\* C12: disconnect() on a context that never connected invokes no
\* ctx.redis.disconnect(), and once a disconnect has completed no further
\* disconnect() invokes one either.
C12_DisconnectIdempotent ==
    \A c \in Calls :
        (/\ calls[c].op = "disconnect"
         /\ calls[c].hist0.connects = 0 \/ calls[c].hist0.disconnected)
        => EventsOf(calls[c], "redis.disconnect") = <<>>

\* C13: the connection is not open before the first operation, and no
\* operation, one started after a disconnect included, issues a cache read
\* or write on a client whose connection is not open.
C13_IoOnlyWhileOpen ==
    /\ ops = 0 => ~redis_open
    /\ \A c \in Calls : EventsOf(calls[c], "io.rejected") = <<>>

\* the last thing a call did
LastEvent(r) == r.log[Len(r.log)]

\* C14: when the lookup of batch N of a getUsers call fails, no request for
\* batch N+1 is made, the call fails, nothing the earlier batches returned
\* is returned or written, and the cache is as it was before the call.
C14_BatchFailureAborts ==
    \A c \in Calls :
        LET r == calls[c]
            failures == EventsOf(r, "lookup.failed")
        IN (r.op = "getUsers" /\ failures # <<>>) =>
              /\ r.pc = "failed"
              /\ Len(failures) = 1
              /\ LastEvent(r) = failures[1]
              /\ failures[1].ids = NthBatch(Misses(r), Len(EventsOf(r, "lookup")) + 1)
              /\ r.result = <<>>
              /\ EventsOf(r, "write") = <<>>
              /\ cache = r.cache0

\* a call that had cache hits and the answer of a first batch in hand when
\* its second batch failed, with a third batch still to ask
C14_Witness ==
    \E c \in Calls :
        LET r == calls[c]
        IN /\ r.op = "getUsers"
           /\ EventsOf(r, "lookup.failed") # <<>>
           /\ Len(EventsOf(r, "lookup")) = 1
           /\ Len(r.batches) = 3
           /\ r.users # <<>>
           /\ r.cached_users # <<>>
           /\ r.cache0 # <<>>

\* C15: when an invocation of the mock generator fails during getUsers, the
\* generator is not invoked for the ids that remain, the call fails, and no
\* mock record the call had already made is written to the cache.
C15_MockFailureAborts ==
    \A c \in Calls :
        LET r == calls[c]
            failures == EventsOf(r, "mock.failed")
        IN (r.op = "getUsers" /\ failures # <<>>) =>
              /\ r.pc = "failed"
              /\ Len(failures) = 1
              /\ LastEvent(r) = failures[1]
              /\ failures[1].ids = <<r.still_missing_ids[Len(r.mock_users) + 1]>>
              /\ Len(EventsOf(r, "mock")) = Len(r.mock_users)
              /\ r.result = <<>>
              /\ \A i, j \in 1..Len(r.log) :
                    (r.log[i].ev = "mock" /\ r.log[j].ev = "write") => j < i
              /\ \A i \in 1..Len(r.mock_users) :
                    \A k \in DOMAIN cache : cache[k].doc # r.mock_users[i]

\* the generator failed on the second id after it had answered for the first
C15_Witness ==
    \E c \in Calls :
        LET r == calls[c]
        IN /\ r.op = "getUsers"
           /\ EventsOf(r, "mock.failed") # <<>>
           /\ Len(r.mock_users) = 1
           /\ Len(r.still_missing_ids) = 2
           /\ r.pc = "failed"

\* C16: when the credential exchange fails, getToken has made exactly one
\* attempt and makes no other, the public operation fails, the token of the
\* context is the one getToken found, and the lookup or search request the
\* token was for is not sent.
C16_ExchangeFailurePropagates ==
    \A c \in Calls :
        LET r == calls[c]
            failures == EventsOf(r, "exchange.failed")
            n == Len(r.log)
        IN failures # <<>> =>
              /\ r.pc = "failed"
              /\ Len(failures) = 1
              /\ LastEvent(r) = failures[1]
              /\ n > 1 /\ r.log[n - 1].ev = "getToken"
              /\ access_token = r.log[n - 1].ids
              /\ r.op = "getUsers" => Len(EventsOf(r, "lookup")) = r.bi - 1
              /\ r.op = "searchUsers" => EventsOf(r, "search") = <<>>
              /\ EventsOf(r, "write") = <<>>
              /\ r.result = <<>>

\* an exchange that failed while an expired token was stored, which stays
C16_Witness ==
    \E c \in Calls :
        /\ EventsOf(calls[c], "exchange.failed") # <<>>
        /\ calls[c].pc = "failed"
        /\ access_token # <<>>
        /\ ~ValidAt(access_token, now)

\* the call reached the mock loop
MockStage(r) == \E i \in 1..Len(r.log) : r.log[i].ev \in {"mock", "mock.failed"}

\* C19: with a generator configured, getUsers writes the users it fetched
\* before it first invokes the generator, so a call that fails in the mock
\* loop or in the write of the mock users leaves the fetched users cached.
C19_FetchedWrittenBeforeMocks ==
    \A c \in Calls :
        LET r == calls[c]
        IN (r.op = "getUsers" /\ r.fetched_users # <<>>) =>
              /\ \A i \in 1..Len(r.log) :
                    r.log[i].ev \in {"mock", "mock.failed"} =>
                       \E j \in 1..(i - 1) :
                          /\ r.log[j].ev = "write"
                          /\ r.log[j].ids = UserIds(r.fetched_users)
              /\ (r.pc = "failed" /\ MockStage(r)) =>
                    \A i \in 1..Len(r.fetched_users) :
                       StoredAsWritten(r, r.fetched_users[i])

\* a call that failed in the generator and left a user it fetched in the
\* cache, which did not hold it before
C19_Witness ==
    \E c \in Calls :
        LET r == calls[c]
        IN /\ r.op = "getUsers"
           /\ r.pc = "failed"
           /\ EventsOf(r, "mock.failed") # <<>>
           /\ r.fetched_users # <<>>
           /\ Stored(cache, r.fetched_users[1].user_id)
           /\ ~Stored(r.cache0, r.fetched_users[1].user_id)

\* the record of an identifier a call stored last: the result lists the
\* fetched users, then the mock users, in the order they were written
LastRecordFor(r, id) ==
    LET at == {i \in 1..Len(r.result) : r.result[i].user_id = id}
    IN r.result[CHOOSE i \in at : \A j \in at : j <= i]

\* two getUsers calls, both completed, that both missed an id the remote
\* directory holds
C17_Case(c, d, id) ==
    /\ c # d
    /\ GetUsersDone(c) /\ GetUsersDone(d)
    /\ id \in upstream
    /\ \A x \in {c, d} :
          id \in SeqToSet(calls[x].ids) /\ ~Stored(calls[x].read_cache, id)

\* C17: when two getUsers calls miss the same id of the remote directory,
\* each requests it, each writes it and each returns a record for it, and
\* once both have completed the cache entry of the id is the record of
\* whichever call wrote it last, with the expiry of that write (and is gone
\* only when that time to live has elapsed).
C17_LastWriteWins ==
    \A c, d \in Calls : \A id \in Ids :
        C17_Case(c, d, id) =>
           /\ \A x \in {c, d} :
                 /\ CountId(calls[x].result, id) >= 1
                 /\ id \in WrittenIds(calls[x])
                 /\ \E e \in SeqToSet(EventsOf(calls[x], "lookup")) :
                       id \in SeqToSet(e.ids)
           /\ IF Stored(cache, id)
              THEN LET w == hist.writer[RedisKey(id)]
                   IN w \in {c, d} =>
                         StoredAsWritten(calls[w], LastRecordFor(calls[w], id))
              ELSE \A x \in {c, d} :
                      StoredAsWritten(calls[x], LastRecordFor(calls[x], id))

\* both calls fetched the id; one wrote it a second after the other and its
\* write is the entry the cache holds
C17_Witness ==
    \E c, d \in Calls : \E id \in Ids :
        /\ C17_Case(c, d, id)
        /\ Stored(cache, id)
        /\ hist.writer[RedisKey(id)] = d
        /\ \E e \in SeqToSet(EventsOf(calls[c], "write")) :
              id \in SeqToSet(e.ids) /\ e.at < now
        /\ cache[RedisKey(id)].expire_at = now + options.ttl

\* C18 (amended): when getToken calls overlap, each exchange is followed at
\* once by the return of the token it produced, as it was issued (valid or
\* not); no two exchanges produce the same token; the context holds no
\* token before the first exchange completes and from then on exactly one,
\* the token of the exchange that completed last.
C18_OwnTokenLastStored ==
    /\ \A c \in Calls :
          LET log == calls[c].log
          IN \A i \in 1..Len(log) :
                log[i].ev = "exchange" =>
                   /\ i < Len(log)
                   /\ log[i + 1].ev = "token"
                   /\ log[i + 1].ids = log[i].ids
                   /\ log[i].ids[1].id <= token_seq
                   /\ \A d \in Calls : \A j \in 1..Len(calls[d].log) :
                         (/\ calls[d].log[j].ev = "exchange"
                          /\ calls[d].log[j].ids[1].id = log[i].ids[1].id)
                         => (d = c /\ j = i)
    /\ Len(access_token) = IF token_seq = 0 THEN 0 ELSE 1
    /\ token_seq > 0 => access_token[1].id = token_seq

\* C18 (as worded): when getToken calls overlap while no valid token is
\* stored, each returns the valid token its own exchange produced, one token
\* is stored at any time, and in the end it is the token of the exchange
\* that completed last.
C18_AsWorded ==
    /\ C18_OwnTokenLastStored
    /\ \A c \in Calls :
          \A i \in 1..Len(calls[c].log) :
             calls[c].log[i].ev = "exchange" =>
                ValidAt(calls[c].log[i].ids, calls[c].log[i].at)

\* two calls that both found no token stored, each exchanged and returned
\* its own token; the one stored is the second
C18_Witness ==
    \E c, d \in Calls :
        /\ c # d
        /\ calls[c].pc = "done" /\ calls[d].pc = "done"
        /\ \E i \in 2..Len(calls[c].log), j \in 2..Len(calls[d].log) :
              /\ calls[c].log[i].ev = "exchange"
              /\ calls[d].log[j].ev = "exchange"
              /\ calls[c].log[i - 1].ids = <<>>
              /\ calls[d].log[j - 1].ids = <<>>
              /\ calls[c].log[i].ids[1].id = 1
              /\ calls[d].log[j].ids[1].id = 2
              /\ access_token = calls[d].log[j].ids

\* C20: from an empty cache on, whatever setUsers, getUsers and searchUsers
\* calls are made, every entry is stored under the key of its own user_id,
\* so a cache read for an id yields nothing or a record getUsers counts as
\* a hit for that id; a mock record whose user_id is not the id it was made
\* for is stored under its own user_id, not under the id asked.
C20_KeyedByOwnId ==
    /\ \A k \in DOMAIN cache : k = RedisKey(cache[k].doc.user_id)
    /\ \A id \in Ids :
          LET got == RedisGet(cache, RedisKey(id), now)
          IN got # <<>> =>
                /\ userExists(got)
                /\ got[1].user_id = id
                /\ IdsNotIn(<<id>>, CachedUsers(cache, <<id>>, now)) = <<>>
    /\ \A c \in Calls :
          LET r == calls[c]
          IN GetUsersDone(c) =>
                \A i \in 1..Len(r.mock_users) :
                   LET u == r.mock_users[i]
                       asked == r.still_missing_ids[i]
                   IN u.user_id # asked =>
                         /\ StoredAsWritten(r, u)
                         /\ Stored(cache, asked) => cache[RedisKey(asked)].doc # u

\* a mock record made for one id and stored under the other, its own, while
\* the id asked has no entry
C20_Witness ==
    \E c \in Calls :
        LET r == calls[c]
        IN /\ GetUsersDone(c)
           /\ Len(r.mock_users) = 1
           /\ r.mock_users[1].user_id # r.still_missing_ids[1]
           /\ Stored(cache, r.mock_users[1].user_id)
           /\ cache[RedisKey(r.mock_users[1].user_id)].doc = r.mock_users[1]
           /\ ~Stored(cache, r.still_missing_ids[1])

====
